---- MODULE Spec2Model ----
(***************************************************************************)
(* The catalog data model of django_locallibrary (catalog/models.py):      *)
(* Genre, Language, Book, BookInstance and Author, with the rows of        *)
(* django.contrib.auth's User that BookInstance.borrower points to.        *)
(*                                                                         *)
(* The state is the content of the tables.  An action is one ORM call on   *)
(* a model (objects.create, full_clean + save, delete, genre.add, a        *)
(* method call).  A call the database rejects (IntegrityError) or that     *)
(* validation rejects (ValidationError) changes no table: such a call is   *)
(* not enabled.                                                            *)
(***************************************************************************)
EXTENDS Integers, Sequences, FiniteSets, TLC

VARIABLES
    authors,         \* Author rows: [id]
    languages,       \* Language rows: [id]
    users,           \* auth.User rows: [id]
    genres,          \* Genre rows: [id, name]
    books,           \* Book rows: [id, title, author, language]
    book_genre,      \* rows of the Book.genre many-to-many table: [book, genre]
    instances,       \* BookInstance rows: [id, book, due_back, borrower, status]
    nextAuthorId,    \* the AutoField sequences of the four tables with an
    nextLanguageId,  \* implicit integer primary key
    nextUserId,
    nextGenreId,
    nextBookId,
    today,           \* date.today(), as a proleptic ordinal (date.min is day 1)
    request,         \* the call handled last, with its arguments
    response         \* what that call returned

tables == <<authors, languages, users, genres, books, book_genre, instances>>
sequences == <<nextAuthorId, nextLanguageId, nextUserId, nextGenreId, nextBookId>>
vars == <<tables, sequences, today, request, response>>

(***************************************************************************)
(* Bounds of the model.                                                    *)
(***************************************************************************)
MaxParents == 1      \* rows ever created per referenced table (referential model)
MaxBooks == 1        \* Book rows ever created (referential model)
MaxLoanBooks == 1    \* Book rows ever created (loan model)
MaxUrlRows == 3      \* Author and Book rows created (URL model)
UsedUrlIds == 8      \* ids used up by rows long deleted (URL model)
MaxGenres == 4       \* Genre rows ever created (genre model)
MaxDay == 4          \* the last day the calendar reaches

UUIDs == {10, 171}                  \* the values uuid.uuid4() may return
Titles == {"Dune", "Emma"}
GenreNames == {"Poetry", "Sci-Fi"}

(***************************************************************************)
(* Values.                                                                 *)
(***************************************************************************)
\* Python's None and SQL's NULL.  Ids and day ordinals start at 1.
None == 0

\* django.db.models.fields.NOT_PROVIDED: a keyword argument left out.
NOT_PROVIDED == "NOT_PROVIDED"

\* None where a text is expected: a status given as None.
NoneText == "<None>"

\* What a call that returns nothing leaves as its response.
NoResponse == "None"

AttributeError == "AttributeError: 'NoneType' object has no attribute 'title'"

Dates == 1..MaxDay

\* bool(v) of a datetime.date or None: date defines neither __bool__ nor
\* __len__, so every date is true; None is false.
Truthy(v) == v # None

Min(a, b) == IF a < b THEN a ELSE b

Ids(rows) == {r.id : r \in rows}

Row(rows, id) == CHOOSE r \in rows : r.id = id

(***************************************************************************)
(* Conversions to text.  A text is a TLA+ string.                          *)
(***************************************************************************)
HexDigits == <<"0", "1", "2", "3", "4", "5", "6", "7",
               "8", "9", "a", "b", "c", "d", "e", "f">>

\* str(n) of an int n >= 0: its decimal digits.
RECURSIVE int_str(_)
int_str(n) ==
    IF n < 10 THEN HexDigits[n + 1]
    ELSE int_str(n \div 10) \o HexDigits[(n % 10) + 1]

\* '%0<width>x' % n, as the sequence of its characters.
RECURSIVE hex_digits(_, _)
hex_digits(n, width) ==
    IF width = 0 THEN <<>>
    ELSE Append(hex_digits(n \div 16, width - 1), HexDigits[(n % 16) + 1])

RECURSIVE concat(_)
concat(chars) == IF chars = <<>> THEN "" ELSE Head(chars) \o concat(Tail(chars))

\* str(u) of a uuid.UUID u (UUID.__str__): the 32 hex digits of u.int in
\* groups of 8-4-4-4-12.
uuid_str(u) ==
    LET hex == hex_digits(u, 32)
    IN  concat(SubSeq(hex, 1, 8)) \o "-" \o concat(SubSeq(hex, 9, 12)) \o "-"
        \o concat(SubSeq(hex, 13, 16)) \o "-" \o concat(SubSeq(hex, 17, 20))
        \o "-" \o concat(SubSeq(hex, 21, 32))

\* sep.join(texts)
RECURSIVE join(_, _)
join(sep, texts) ==
    IF texts = <<>> THEN ""
    ELSE IF Len(texts) = 1 THEN texts[1]
    ELSE texts[1] \o sep \o join(sep, Tail(texts))

\* seq[:n]
Slice(seq, n) == SubSeq(seq, 1, Min(n, Len(seq)))

(***************************************************************************)
(* URL construction.  The routes are those of the project's URLconf.       *)
(***************************************************************************)
route(viewname) ==
    CASE viewname = "book-detail" -> "/catalog/book/"
      [] viewname = "author-detail" -> "/catalog/author/"

\* django.urls.reverse(viewname, args=[arg]): the route with its one
\* parameter filled in.
reverse(viewname, args) == route(viewname) \o args[1]

(***************************************************************************)
(* Book                                                                    *)
(***************************************************************************)
\* self.genre.all(): Genre declares no Meta.ordering and the query has no
\* ORDER BY, so the rows come in an order the database chooses.  The set of
\* the orders it may choose.
genre_all(b) ==
    LET rows == {g \in genres : [book |-> b, genre |-> g.id] \in book_genre}
        n == Cardinality(rows)
    IN  {qs \in [1..n -> rows] : \A i, j \in 1..n : qs[i] = qs[j] => i = j}

\* (For comparison: display_genre without the [:3].)
Book_display_genre_unsliced(qs) ==
    join(", ", [i \in 1..Len(qs) |-> qs[i].name])

\* Book.display_genre on the query result qs.
Book_display_genre(qs) ==
    join(", ", [i \in 1..Len(Slice(qs, 3)) |-> Slice(qs, 3)[i].name])

\* (For comparison: the URL built from the title instead of the id.)
Book_get_absolute_url_by_title(self) == reverse("book-detail", <<self.title>>)

\* Book.get_absolute_url
Book_get_absolute_url(self) == reverse("book-detail", <<int_str(self.id)>>)

(***************************************************************************)
(* Author                                                                  *)
(***************************************************************************)
Author_get_absolute_url(self) == reverse("author-detail", <<int_str(self.id)>>)

(***************************************************************************)
(* BookInstance                                                            *)
(***************************************************************************)
LOAN_STATUS == <<
    <<"m", "Maintenance">>,
    <<"o", "On loan">>,
    <<"a", "Available">>,
    <<"r", "Reserved">> >>

\* status = CharField(max_length=1, choices=LOAN_STATUS, blank=True, default='m')
status_max_length == 1
status_choices == {LOAN_STATUS[i][1] : i \in 1..Len(LOAN_STATUS)}
status_blank == TRUE
status_default_available == "a"    \* (for comparison: default='a')
status_default == "m"

\* Field.get_default: the value of a field the caller did not give.
FieldValue(arg, default) == IF arg = NOT_PROVIDED THEN default ELSE arg

\* BookInstance.__str__: '{0} ({1})'.format(self.id, self.book.title).
\* self.book is None when book_id is NULL, and None has no title.
BookInstance__str__(self) ==
    IF self.book = None THEN AttributeError
    ELSE uuid_str(self.id) \o " (" \o Row(books, self.book).title \o ")"

\* (For comparison: is_overdue with >= in place of >.)
BookInstance_is_overdue_on_due_day(self) ==
    IF Truthy(self.due_back) /\ today >= self.due_back THEN TRUE ELSE FALSE

\* BookInstance.is_overdue
BookInstance_is_overdue(self) ==
    IF Truthy(self.due_back) /\ today > self.due_back THEN TRUE ELSE FALSE

\* Field.empty_values, among the values a status can be.
EMPTY_VALUES == {NoneText, ""}

\* (For comparison: clean_status of the field declared without choices.)
clean_status_without_choices(value) ==
    IF status_blank /\ value \in EMPTY_VALUES THEN TRUE
    ELSE Len(value) <= status_max_length

\* Model.clean_fields on status: a blank value of a field with blank=True is
\* not validated; any other value must be one of the choices
\* (Field.validate) and fit max_length (MaxLengthValidator).
clean_status(value) ==
    IF status_blank /\ value \in EMPTY_VALUES THEN TRUE
    ELSE value \in status_choices /\ Len(value) <= status_max_length

\* Model.clean_fields on book: null=True but not blank=True, so validation
\* wants a book, and ForeignKey.validate wants its row to exist.
clean_book(value) == value # None /\ value \in Ids(books)

\* Model.full_clean of a BookInstance about to be saved.
full_clean(book, status) == clean_book(book) /\ clean_status(status)

(***************************************************************************)
(* What the database enforces.                                             *)
(***************************************************************************)
\* (For comparison: a key column that is not a primary key.)
PrimaryKeyUnchecked(rows, id) == TRUE

\* primary_key=True: an INSERT of a key the table holds is rejected.
PrimaryKeyFree(rows, id) == id \notin Ids(rows)

\* A column of a field without null=True is NOT NULL.
NotNull(value) == value # NoneText

\* ForeignKey(..., null=True): NULL, or the key of a row of the target table.
ForeignKeyValid(target, key) == key = None \/ key \in Ids(target)

\* (For comparison: on_delete=models.CASCADE.)
CASCADE(rows, field, deleted) == {r \in rows : r[field] # deleted}

\* on_delete=models.SET_NULL: the rows of a referring table once the target
\* row with key `deleted` is gone.
SET_NULL(rows, field, deleted) ==
    {IF r[field] = deleted THEN [r EXCEPT ![field] = None] ELSE r : r \in rows}

(***************************************************************************)
(* The calls.                                                              *)
(***************************************************************************)
Init ==
    /\ authors = {} /\ languages = {} /\ users = {} /\ genres = {}
    /\ books = {} /\ book_genre = {} /\ instances = {}
    /\ nextAuthorId = 1 /\ nextLanguageId = 1 /\ nextUserId = 1
    /\ nextGenreId = 1 /\ nextBookId = 1
    /\ today = 1
    /\ request = [op |-> "migrate"]
    /\ response = NoResponse

\* Author.objects.create(...)
CreateAuthor ==
    /\ authors' = authors \cup {[id |-> nextAuthorId]}
    /\ nextAuthorId' = nextAuthorId + 1
    /\ request' = [op |-> "Author.create"]
    /\ response' = NoResponse
    /\ UNCHANGED <<languages, users, genres, books, book_genre, instances,
                   nextLanguageId, nextUserId, nextGenreId, nextBookId, today>>

\* author.delete(): Book.author is SET_NULL.
DeleteAuthor(a) ==
    /\ a \in Ids(authors)
    /\ authors' = {r \in authors : r.id # a}
    /\ books' = SET_NULL(books, "author", a)
    /\ request' = [op |-> "Author.delete"]
    /\ response' = NoResponse
    /\ UNCHANGED <<languages, users, genres, book_genre, instances, sequences, today>>

\* Language.objects.create(...)
CreateLanguage ==
    /\ languages' = languages \cup {[id |-> nextLanguageId]}
    /\ nextLanguageId' = nextLanguageId + 1
    /\ request' = [op |-> "Language.create"]
    /\ response' = NoResponse
    /\ UNCHANGED <<authors, users, genres, books, book_genre, instances,
                   nextAuthorId, nextUserId, nextGenreId, nextBookId, today>>

\* language.delete(): Book.language is SET_NULL.
DeleteLanguage(l) ==
    /\ l \in Ids(languages)
    /\ languages' = {r \in languages : r.id # l}
    /\ books' = SET_NULL(books, "language", l)
    /\ request' = [op |-> "Language.delete"]
    /\ response' = NoResponse
    /\ UNCHANGED <<authors, users, genres, book_genre, instances, sequences, today>>

\* User.objects.create(...)
CreateUser ==
    /\ users' = users \cup {[id |-> nextUserId]}
    /\ nextUserId' = nextUserId + 1
    /\ request' = [op |-> "User.create"]
    /\ response' = NoResponse
    /\ UNCHANGED <<authors, languages, genres, books, book_genre, instances,
                   nextAuthorId, nextLanguageId, nextGenreId, nextBookId, today>>

\* user.delete(): BookInstance.borrower is SET_NULL.
DeleteUser(u) ==
    /\ u \in Ids(users)
    /\ users' = {r \in users : r.id # u}
    /\ instances' = SET_NULL(instances, "borrower", u)
    /\ request' = [op |-> "User.delete"]
    /\ response' = NoResponse
    /\ UNCHANGED <<authors, languages, genres, books, book_genre, sequences, today>>

\* Genre.objects.create(name=name)
CreateGenre(name) ==
    /\ genres' = genres \cup {[id |-> nextGenreId, name |-> name]}
    /\ nextGenreId' = nextGenreId + 1
    /\ request' = [op |-> "Genre.create"]
    /\ response' = NoResponse
    /\ UNCHANGED <<authors, languages, users, books, book_genre, instances,
                   nextAuthorId, nextLanguageId, nextUserId, nextBookId, today>>

\* genre.delete(): its rows of the many-to-many table go with it.
DeleteGenre(g) ==
    /\ g \in Ids(genres)
    /\ genres' = {r \in genres : r.id # g}
    /\ book_genre' = {r \in book_genre : r.genre # g}
    /\ request' = [op |-> "Genre.delete"]
    /\ response' = NoResponse
    /\ UNCHANGED <<authors, languages, users, books, instances, sequences, today>>

\* Book.objects.create(title=title, author_id=author, language_id=language)
CreateBook(title, author, language) ==
    /\ ForeignKeyValid(authors, author)
    /\ ForeignKeyValid(languages, language)
    /\ books' = books \cup {[id |-> nextBookId, title |-> title,
                             author |-> author, language |-> language]}
    /\ nextBookId' = nextBookId + 1
    /\ request' = [op |-> "Book.create"]
    /\ response' = NoResponse
    /\ UNCHANGED <<authors, languages, users, genres, book_genre, instances,
                   nextAuthorId, nextLanguageId, nextUserId, nextGenreId, today>>

\* book.delete(): BookInstance.book is SET_NULL, and the book's rows of the
\* many-to-many table go with it.
DeleteBook(b) ==
    /\ b \in Ids(books)
    /\ books' = {r \in books : r.id # b}
    /\ instances' = SET_NULL(instances, "book", b)
    /\ book_genre' = {r \in book_genre : r.book # b}
    /\ request' = [op |-> "Book.delete"]
    /\ response' = NoResponse
    /\ UNCHANGED <<authors, languages, users, genres, sequences, today>>

\* book.genre.add(genre)
AddGenre(b, g) ==
    /\ b \in Ids(books)
    /\ g \in Ids(genres)
    /\ book_genre' = book_genre \cup {[book |-> b, genre |-> g]}
    /\ request' = [op |-> "Book.genre.add"]
    /\ response' = NoResponse
    /\ UNCHANGED <<authors, languages, users, genres, books, instances, sequences, today>>

\* book.display_genre()
DisplayGenre(b) ==
    /\ b \in Ids(books)
    /\ \E qs \in genre_all(b) : response' = Book_display_genre(qs)
    /\ request' = [op |-> "Book.display_genre", book |-> b]
    /\ UNCHANGED <<tables, sequences, today>>

\* BookInstance(id=uuid4(), book_id=book, due_back=due_back,
\* borrower_id=borrower[, status=status]), then full_clean() when `clean`,
\* then save(force_insert=True).  id is what the default uuid.uuid4 drew.
CreateBookInstance(id, book, due_back, borrower, status, clean) ==
    LET self == [id |-> id, book |-> book, due_back |-> due_back,
                 borrower |-> borrower,
                 status |-> FieldValue(status, status_default)]
    IN  /\ clean => full_clean(self.book, self.status)
        /\ PrimaryKeyFree(instances, self.id)
        /\ NotNull(self.status)
        /\ ForeignKeyValid(books, self.book)
        /\ ForeignKeyValid(users, self.borrower)
        /\ instances' = instances \cup {self}
        /\ request' = [op |-> "BookInstance.create", id |-> id,
                       status |-> status, clean |-> clean]
        /\ response' = NoResponse
        /\ UNCHANGED <<authors, languages, users, genres, books, book_genre,
                       sequences, today>>

\* instance.delete()
DeleteBookInstance(self) ==
    /\ self \in instances
    /\ instances' = instances \ {self}
    /\ request' = [op |-> "BookInstance.delete"]
    /\ response' = NoResponse
    /\ UNCHANGED <<authors, languages, users, genres, books, book_genre,
                   sequences, today>>

\* Midnight: date.today() moves on.
NextDay ==
    /\ today' = today + 1
    /\ request' = [op |-> "midnight"]
    /\ response' = NoResponse
    /\ UNCHANGED <<tables, sequences>>

(***************************************************************************)
(* The referential model: every table that holds or is the target of a     *)
(* foreign key, with every create and delete.                              *)
(***************************************************************************)
ParentKeys == {None} \cup (1..MaxParents)
BookKeys == {None} \cup (1..MaxBooks)

Next ==
    \/ nextAuthorId <= MaxParents /\ CreateAuthor
    \/ \E a \in Ids(authors) : DeleteAuthor(a)
    \/ nextLanguageId <= MaxParents /\ CreateLanguage
    \/ \E l \in Ids(languages) : DeleteLanguage(l)
    \/ nextUserId <= MaxParents /\ CreateUser
    \/ \E u \in Ids(users) : DeleteUser(u)
    \/ /\ nextBookId <= MaxBooks
       /\ \E a \in ParentKeys, l \in ParentKeys : CreateBook("Dune", a, l)
    \/ \E b \in Ids(books) : DeleteBook(b)
    \/ \E id \in UUIDs, b \in BookKeys, u \in ParentKeys :
           CreateBookInstance(id, b, None, u, NOT_PROVIDED, FALSE)
    \/ \E self \in instances : DeleteBookInstance(self)

Spec == Init /\ [][Next]_vars

(***************************************************************************)
(* The loan model: the copies of a book, created with or without a status, *)
(* through validation (a form, the admin) or not (objects.create).         *)
(***************************************************************************)
StatusArgs == {NOT_PROVIDED, NoneText, "m", "o", "a", "r", "", "x", "ma"}
LoanBookKeys == {None} \cup (1..MaxLoanBooks)

NextLoan ==
    \/ nextBookId <= MaxLoanBooks /\ CreateBook("Dune", None, None)
    \/ \E b \in Ids(books) : DeleteBook(b)
    \/ \E id \in UUIDs, b \in LoanBookKeys, status \in StatusArgs, clean \in BOOLEAN :
           CreateBookInstance(id, b, None, None, status, clean)
    \/ \E self \in instances : DeleteBookInstance(self)

SpecLoan == Init /\ [][NextLoan]_vars

(***************************************************************************)
(* The calendar model: copies with and without a due date, as days pass.   *)
(***************************************************************************)
NextOverdue ==
    \/ \E id \in UUIDs, due_back \in {None} \cup Dates :
           CreateBookInstance(id, None, due_back, None, NOT_PROVIDED, FALSE)
    \/ \E self \in instances : DeleteBookInstance(self)
    \/ today < MaxDay /\ NextDay

SpecOverdue == Init /\ [][NextOverdue]_vars

(***************************************************************************)
(* The URL model: the books and authors a detail page can be asked for.    *)
(***************************************************************************)
\* A catalog whose first UsedUrlIds authors and books have come and gone.
InitUrl ==
    /\ authors = {} /\ languages = {} /\ users = {} /\ genres = {}
    /\ books = {} /\ book_genre = {} /\ instances = {}
    /\ nextAuthorId = UsedUrlIds + 1 /\ nextBookId = UsedUrlIds + 1
    /\ nextLanguageId = 1 /\ nextUserId = 1 /\ nextGenreId = 1
    /\ today = 1
    /\ request = [op |-> "migrate"]
    /\ response = NoResponse

NextUrl ==
    \/ nextAuthorId <= UsedUrlIds + MaxUrlRows /\ CreateAuthor
    \/ \E a \in Ids(authors) : DeleteAuthor(a)
    \/ /\ nextBookId <= UsedUrlIds + MaxUrlRows
       /\ \E title \in Titles : CreateBook(title, None, None)
    \/ \E b \in Ids(books) : DeleteBook(b)

SpecUrl == InitUrl /\ [][NextUrl]_vars

(***************************************************************************)
(* The genre model: one book, the genres it is given, and its admin        *)
(* column.                                                                 *)
(***************************************************************************)
NextGenre ==
    \/ nextGenreId <= MaxGenres /\ \E name \in GenreNames : CreateGenre(name)
    \/ \E g \in Ids(genres) : DeleteGenre(g)
    \/ nextBookId <= 1 /\ CreateBook("Dune", None, None)
    \/ \E b \in Ids(books), g \in Ids(genres) : AddGenre(b, g)
    \/ \E b \in Ids(books) : DisplayGenre(b)

SpecGenre == Init /\ [][NextGenre]_vars

(***************************************************************************)
(* Properties.                                                             *)
(***************************************************************************)

\* C1 (SpecOverdue): for every BookInstance and every current date,
\* is_overdue is True exactly when due_back is set and today is strictly
\* later than due_back; it is False when due_back is null, and False when
\* today equals due_back or is earlier.
C1_OverdueExactlyWhenPastDue ==
    \A self \in instances :
        /\ BookInstance_is_overdue(self) \in BOOLEAN
        /\ BookInstance_is_overdue(self) = TRUE
              <=> (self.due_back # None /\ today > self.due_back)
        /\ self.due_back = None => BookInstance_is_overdue(self) = FALSE
        /\ (self.due_back # None /\ today <= self.due_back)
              => BookInstance_is_overdue(self) = FALSE

\* C1's case: one copy past its due date and overdue, another due today
\* and not overdue.
C1_Witness ==
    \E late, due \in instances :
        /\ late.due_back # None /\ today > late.due_back
        /\ BookInstance_is_overdue(late) = TRUE
        /\ due.due_back = today
        /\ BookInstance_is_overdue(due) = FALSE

\* C2 (Spec): in every reachable state BookInstance.__str__ returns
\* '<id> (<title of its book>)' without raising an error, for every existing
\* BookInstance, including one whose Book has been deleted or was never set.
C2_StrNeverRaises ==
    \A self \in instances :
        /\ BookInstance__str__(self) # AttributeError
        /\ \E title \in Titles :
              /\ self.book # None => title = Row(books, self.book).title
              /\ BookInstance__str__(self)
                    = uuid_str(self.id) \o " (" \o title \o ")"

\* C3 (SpecLoan): after any sequence of BookInstance creations and
\* deletions, no two existing BookInstances have the same id.
C3_InstanceIdsUnique ==
    \A r1, r2 \in instances : r1.id = r2.id => r1 = r2

\* C3's case: a second copy has just been created beside the first.
C3_Witness ==
    /\ Cardinality(instances) = 2
    /\ Cardinality(Ids(instances)) = 2
    /\ request.op = "BookInstance.create"

\* C4 (Spec): every foreign key (Book.author, Book.language,
\* BookInstance.book, BookInstance.borrower) is null or refers to a row that
\* still exists.
ReferencesExist ==
    /\ \A b \in books :
          /\ b.author = None \/ b.author \in Ids(authors)
          /\ b.language = None \/ b.language \in Ids(languages)
    /\ \A i \in instances :
          /\ i.book = None \/ i.book \in Ids(books)
          /\ i.borrower = None \/ i.borrower \in Ids(users)

\* When the step deleted the target rows with the keys `gone`: the referring
\* table has the rows it had, with `field` null in those that referred to a
\* deleted row and every other row as it was.
ReferrersKeptAndNulled(before, after, field, gone) ==
    gone # {} =>
        /\ Ids(after) = Ids(before)
        /\ Cardinality(after) = Cardinality(before)
        /\ \A r \in before :
              IF r[field] \in gone
              THEN [r EXCEPT ![field] = None] \in after
              ELSE r \in after

DeleteKeepsReferrers ==
    /\ ReferrersKeptAndNulled(books, books', "author",
                              Ids(authors) \ Ids(authors'))
    /\ ReferrersKeptAndNulled(books, books', "language",
                              Ids(languages) \ Ids(languages'))
    /\ ReferrersKeptAndNulled(instances, instances', "book",
                              Ids(books) \ Ids(books'))
    /\ ReferrersKeptAndNulled(instances, instances', "borrower",
                              Ids(users) \ Ids(users'))

\* C4 (Spec): after any sequence of creating and deleting Authors,
\* Languages, Books, Users and BookInstances, every foreign key is either
\* null or refers to a row that still exists; deleting the referenced row
\* sets the reference to null and never deletes the referring Book or
\* BookInstance.
C4_ReferencesNullOrLive == []ReferencesExist /\ [][DeleteKeepsReferrers]_vars

\* C4's case: a book has just been deleted and a copy, still there and
\* still with its borrower, has no book.
C4_Witness ==
    /\ request.op = "Book.delete"
    /\ nextBookId > 1 /\ books = {}
    /\ \E i \in instances : i.book = None /\ i.borrower # None

\* The decimal numerals, written out.
Numerals == <<"1", "2", "3", "4", "5", "6", "7", "8", "9", "10", "11", "12",
              "13", "14", "15", "16">>

\* C5 (SpecUrl): Book.get_absolute_url returns the 'book-detail' URL built
\* from the string of the book's own id, and Author.get_absolute_url the
\* 'author-detail' URL built from the string of the author's own id; two
\* distinct Books (two distinct Authors) never get the same URL.
C5_DetailUrlsFromOwnId ==
    /\ \A b \in books :
          Book_get_absolute_url(b) = reverse("book-detail", <<Numerals[b.id]>>)
    /\ \A a \in authors :
          Author_get_absolute_url(a) = reverse("author-detail", <<Numerals[a.id]>>)
    /\ \A b1, b2 \in books :
          b1 # b2 => Book_get_absolute_url(b1) # Book_get_absolute_url(b2)
    /\ \A a1, a2 \in authors :
          a1 # a2 => Author_get_absolute_url(a1) # Author_get_absolute_url(a2)

\* C5's case: two books of the same title, and two authors, with ids of one
\* and of two digits.
C5_Witness ==
    /\ \E b1, b2 \in books : b1.id < 10 /\ b2.id >= 10 /\ b1.title = b2.title
    /\ \E a1, a2 \in authors : a1.id < 10 /\ a2.id >= 10

\* The genres of book b.
GenresOf(b) == {g \in genres : [book |-> b, genre |-> g.id] \in book_genre}

\* C6 (SpecGenre): Book.display_genre returns the names of the book's
\* genres joined by ', ', using only the first three genres when the book
\* has more than three, and returns the empty string when the book has no
\* genre; the result never contains more than three genre names.
C6_DisplayGenreAtMostThree ==
    request.op = "Book.display_genre" =>
        LET rows == GenresOf(request.book)
            n == Cardinality(rows)
        IN  /\ n = 0 => response = ""
            /\ n = 1 => \E g \in rows : response = g.name
            /\ n = 2 => \E g1, g2 \in rows :
                  /\ g1 # g2
                  /\ response = g1.name \o ", " \o g2.name
            /\ n >= 3 => \E g1, g2, g3 \in rows :
                  /\ g1 # g2 /\ g1 # g3 /\ g2 # g3
                  /\ response = g1.name \o ", " \o g2.name \o ", " \o g3.name

\* C6's case: display_genre has answered for a book of four genres.
C6_Witness ==
    /\ request.op = "Book.display_genre"
    /\ Cardinality(GenresOf(request.book)) > 3
    /\ response # ""

\* C7 (SpecLoan): a BookInstance created without an explicit status has
\* status 'm' (Maintenance); it is never created as Available, On loan or
\* Reserved by default.
C7_DefaultStatusMaintenance ==
    (request.op = "BookInstance.create" /\ request.status = NOT_PROVIDED) =>
        /\ Row(instances, request.id).status = "m"
        /\ Row(instances, request.id).status \notin {"a", "o", "r"}

\* C7's case: a copy has just been created with no status given.
C7_Witness ==
    /\ request.op = "BookInstance.create"
    /\ request.status = NOT_PROVIDED
    /\ request.id \in Ids(instances)

\* C8 (SpecLoan), as claimed: the status of every BookInstance that passed
\* model validation is one of the four loan-status codes 'm', 'o', 'a', 'r'.
C8_ValidatedStatusIsLoanCode ==
    (request.op = "BookInstance.create" /\ request.clean) =>
        Row(instances, request.id).status \in {"m", "o", "a", "r"}

\* C8 (SpecLoan), amended: the status of every BookInstance that passed
\* model validation is one of the four loan-status codes 'm', 'o', 'a', 'r'
\* or the empty string, which blank=True lets through.
C8_ValidatedStatusIsLoanCodeOrBlank ==
    (request.op = "BookInstance.create" /\ request.clean) =>
        Row(instances, request.id).status \in {"m", "o", "a", "r", ""}

\* C8's case: a copy with a blank status has just passed validation and
\* been saved.
C8_Witness ==
    /\ request.op = "BookInstance.create"
    /\ request.clean
    /\ request.status = ""
    /\ Row(instances, request.id).status = ""

====
